---- MODULE Spec2Model ----
(***************************************************************************)
(* A model of the HTTP server of src/src/main.rs and src/src/http.rs: the  *)
(* accept loop, handle_connection (read lines, HttpRequest::try_from,      *)
(* dispatch on the target, the route handlers, the response write) and the *)
(* StatusCode conversions.                                                 *)
(*                                                                         *)
(* A Rust String is a sequence of one-character strings, so that split,    *)
(* split_once, starts_with, len and to_string are computed, not assumed.   *)
(* Option<T> is a record: None, or Some(x).  A HashMap<String, String> is  *)
(* a set of <<key, value>> pairs with unique keys.                         *)
(***************************************************************************)
EXTENDS Naturals, Integers, Sequences, FiniteSets, TLC

\* Bound: the number of lines a client sends after the request line.
MaxLines == 3

\* Bound: the largest u16 handed to StatusCode::from_u16.
MaxCode == 600

None == [some |-> FALSE]
Some(x) == [some |-> TRUE, val |-> x]

Ok(x) == [ok |-> TRUE, val |-> x]
Err(e) == [ok |-> FALSE, err |-> e]

(***************************************************************************)
(* String helpers of the Rust standard library, as the code uses them.     *)
(***************************************************************************)

\* str::split(char) collected: n separators give n + 1 tokens, "" gives [""].
RECURSIVE split(_, _)
split(s, c) ==
    IF \A i \in 1..Len(s) : s[i] # c
    THEN <<s>>
    ELSE LET i == CHOOSE k \in 1..Len(s) :
                      s[k] = c /\ \A j \in 1..(k - 1) : s[j] # c
         IN  <<SubSeq(s, 1, i - 1)>> \o split(SubSeq(s, i + 1, Len(s)), c)

\* Iterator::last
last(seq) == IF seq = <<>> THEN None ELSE Some(seq[Len(seq)])

\* str::starts_with(&str)
starts_with(s, p) == Len(p) <= Len(s) /\ SubSeq(s, 1, Len(p)) = p

\* str::split_once(&str): split at the first occurrence of sep.
split_once(s, sep) ==
    LET hits == {i \in 1..Len(s) :
                    i + Len(sep) - 1 <= Len(s) /\ SubSeq(s, i, i + Len(sep) - 1) = sep}
    IN  IF hits = {}
        THEN None
        ELSE LET i == CHOOSE k \in hits : \A j \in hits : k <= j
             IN  Some(<<SubSeq(s, 1, i - 1), SubSeq(s, i + Len(sep), Len(s))>>)

DigitChars == <<"0", "1", "2", "3", "4", "5", "6", "7", "8", "9">>

\* usize::to_string / u16 Display: the decimal digits.
RECURSIVE to_string(_)
to_string(n) ==
    IF n < 10
    THEN <<DigitChars[n + 1]>>
    ELSE to_string(n \div 10) \o <<DigitChars[(n % 10) + 1]>>

\* HashMap::insert: the new value replaces an older one of the same key.
insert(map, k, v) == {p \in map : p[1] # k} \cup {<<k, v>>}

\* Iterator::collect into a HashMap: inserts in order, the last of a key wins.
RECURSIVE collect(_)
collect(pairs) ==
    IF pairs = <<>>
    THEN {}
    ELSE LET n == Len(pairs)
         IN  insert(collect(SubSeq(pairs, 1, n - 1)), pairs[n][1], pairs[n][2])

\* HashMap::get
get(map, k) ==
    IF \E p \in map : p[1] = k
    THEN Some((CHOOSE p \in map : p[1] = k)[2])
    ELSE None

(***************************************************************************)
(* The string literals of the code.                                        *)
(***************************************************************************)
s_GET == <<"G", "E", "T">>
s_POST == <<"P", "O", "S", "T">>
s_PUT == <<"P", "U", "T">>
s_PATCH == <<"P", "A", "T", "C", "H">>
s_DELETE == <<"D", "E", "L", "E", "T", "E">>
s_CONNECT == <<"C", "O", "N", "N", "E", "C", "T">>
s_HEAD == <<"H", "E", "A", "D">>
s_OPTIONS == <<"O", "P", "T", "I", "O", "N", "S">>
s_TRACE == <<"T", "R", "A", "C", "E">>
s_HTTP10 == <<"H", "T", "T", "P", "/", "1", ".", "0">>
s_HTTP11 == <<"H", "T", "T", "P", "/", "1", ".", "1">>
s_HTTP20 == <<"H", "T", "T", "P", "/", "2", ".", "0">>
s_OK == <<"O", "K">>
s_Created == <<"C", "r", "e", "a", "t", "e", "d">>
s_BadRequest == <<"B", "a", "d", " ", "R", "e", "q", "u", "e", "s", "t">>
s_NotFound == <<"N", "o", "t", " ", "F", "o", "u", "n", "d">>
s_InternalServerError ==
    <<"I", "n", "t", "e", "r", "n", "a", "l", " ", "S", "e", "r", "v", "e", "r",
      " ", "E", "r", "r", "o", "r">>
s_ContentType == <<"C", "o", "n", "t", "e", "n", "t", "-", "T", "y", "p", "e">>
s_ContentLength ==
    <<"C", "o", "n", "t", "e", "n", "t", "-", "L", "e", "n", "g", "t", "h">>
s_textplain == <<"t", "e", "x", "t", "/", "p", "l", "a", "i", "n">>
s_octetstream ==
    <<"a", "p", "p", "l", "i", "c", "a", "t", "i", "o", "n", "/", "o", "c", "t",
      "e", "t", "-", "s", "t", "r", "e", "a", "m">>
s_UserAgent == <<"U", "s", "e", "r", "-", "A", "g", "e", "n", "t">>
s_colonsp == <<":", " ">>
s_CRLF == <<"\r", "\n">>
s_sp == <<" ">>
p_echo == <<"/", "e", "c", "h", "o", "/">>
p_files == <<"/", "f", "i", "l", "e", "s", "/">>
t_root == <<"/">>
t_useragent == <<"/", "u", "s", "e", "r", "-", "a", "g", "e", "n", "t">>

(***************************************************************************)
(* The message model: enumerations and their conversions.                  *)
(***************************************************************************)

\* impl From<&str> for HttpMethod
HttpMethod_from(method) ==
    CASE method = s_GET -> "Get"
      [] method = s_POST -> "Post"
      [] method = s_PUT -> "Put"
      [] method = s_PATCH -> "Patch"
      [] method = s_DELETE -> "Delete"
      [] method = s_CONNECT -> "Connect"
      [] method = s_HEAD -> "Head"
      [] method = s_OPTIONS -> "Options"
      [] method = s_TRACE -> "Trace"
      [] OTHER -> "NotImp"

\* impl From<&str> for HttpVersion
HttpVersion_from(method) ==
    CASE method = s_HTTP10 -> "Http10"
      [] method = s_HTTP11 -> "Http11"
      [] method = s_HTTP20 -> "Http20"
      [] OTHER -> "Unknown"

\* impl Display for HttpVersion
HttpVersion_fmt(v) ==
    CASE v = "Http10" -> s_HTTP10
      [] v = "Http11" -> s_HTTP11
      [] v = "Http20" -> s_HTTP20
      [] OTHER -> <<>>

\* enum StatusCode, #[repr(u16)]
StatusCode == {"Ok", "Created", "BadRequest", "NotFound", "InternalServerError"}

\* `status_code as u16`: the discriminants of the enum.
as_u16(status_code) ==
    CASE status_code = "Ok" -> 200
      [] status_code = "Created" -> 201
      [] status_code = "BadRequest" -> 400
      [] status_code = "NotFound" -> 404
      [] status_code = "InternalServerError" -> 500

\* StatusCode::from_u16
from_u16(code) ==
    CASE code = 200 -> Some("Ok")
      [] code = 400 -> Some("BadRequest")
      [] code = 404 -> Some("NotFound")
      [] code = 500 -> Some("InternalServerError")
      [] OTHER -> None

(***************************************************************************)
(* HttpResponse and its constructors.                                      *)
(***************************************************************************)

\* HttpResponse::new
new(status_code, reason, headers, body) ==
    [version |-> "Http11", status_code |-> status_code, reason |-> reason,
     headers |-> headers, body |-> body]

\* HttpResponse::ok
ok(headers, body) == new("Ok", Some(s_OK), headers, body)

\* HttpResponse::bad_request
bad_request(headers, body) == new("BadRequest", Some(s_BadRequest), headers, body)

\* HttpResponse::not_found
not_found == new("NotFound", Some(s_NotFound), None, None)

\* HttpResponse::internal_server_error
internal_server_error ==
    new("InternalServerError", Some(s_InternalServerError), None, None)

\* The orders in which a HashMap's iterator may yield its entries.
iter(map) ==
    {o \in [1..Cardinality(map) -> map] : \A i, j \in DOMAIN o : o[i] = o[j] => i = j}

\* The fold of Display for HttpResponse over the header entries, in order o.
RECURSIVE fold_headers(_)
fold_headers(o) ==
    IF o = <<>>
    THEN <<>>
    ELSE LET n == Len(o)
         IN  fold_headers(SubSeq(o, 1, n - 1))
                 \o o[n][1] \o s_colonsp \o o[n][2] \o s_CRLF

\* impl Display for HttpResponse, and as_bytes: the wire text of a response
\* whose header map is iterated in order o.
fmt(response, o) ==
    LET status_line ==
            IF response.reason.some
            THEN HttpVersion_fmt(response.version) \o s_sp
                     \o to_string(as_u16(response.status_code)) \o s_sp
                     \o response.reason.val \o s_CRLF
            ELSE HttpVersion_fmt(response.version) \o s_sp
                     \o to_string(as_u16(response.status_code)) \o s_CRLF
        headers == (IF response.headers.some THEN fold_headers(o) ELSE <<>>) \o s_CRLF
        body == IF response.body.some THEN response.body.val ELSE <<>>
    IN  status_line \o headers \o body

\* HttpResponse::as_bytes for every iteration order of the header map.
as_bytes(response) ==
    IF response.headers.some
    THEN {fmt(response, o) : o \in iter(response.headers.val)}
    ELSE {fmt(response, <<>>)}

(***************************************************************************)
(* HttpRequest::try_from                                                   *)
(***************************************************************************)

\* .skip(1).take_while(|data| !data.is_empty())
take_while(data) ==
    LET rest == Tail(data)
        empties == {i \in 1..Len(rest) : rest[i] = <<>>}
    IN  IF empties = {}
        THEN rest
        ELSE SubSeq(rest, 1, (CHOOSE i \in empties : \A j \in empties : i <= j) - 1)

\* .filter_map(|s| s.split_once(": ").map(|(k, v)| (k, v)))
RECURSIVE filter_map(_)
filter_map(lines) ==
    IF lines = <<>>
    THEN <<>>
    ELSE LET kv == split_once(Head(lines), s_colonsp)
         IN  (IF kv.some THEN <<kv.val>> ELSE <<>>) \o filter_map(Tail(lines))

\* Mutant of parse_headers: the take_while is missing, so the lines after
\* the first empty line are read as headers too.
parse_headers_no_take_while(data) == collect(filter_map(Tail(data)))

\* The header map try_from builds.
parse_headers(data) == collect(filter_map(take_while(data)))

\* Mutant of try_from: the request line is refused only when it has fewer
\* than three tokens.
try_from_at_least_three(data) ==
    IF data = <<>>
    THEN Err("BadRequest")
    ELSE LET request_line == split(data[1], " ")
         IN  IF Len(request_line) < 3
             THEN Err("BadRequest")
             ELSE Ok([method |-> HttpMethod_from(request_line[1]),
                      target |-> request_line[2],
                      version |-> HttpVersion_from(request_line[3]),
                      headers |-> Some(parse_headers(data)),
                      body |-> last(data)])

\* HttpRequest::try_from(Vec<String>)
try_from(data) ==
    IF data = <<>>
    THEN Err("BadRequest")
    ELSE LET request_line == split(data[1], " ")
         IN  IF Len(request_line) # 3
             THEN Err("BadRequest")
             ELSE Ok([method |-> HttpMethod_from(request_line[1]),
                      target |-> request_line[2],
                      version |-> HttpVersion_from(request_line[3]),
                      headers |-> Some(parse_headers(data)),
                      body |-> last(data)])

(***************************************************************************)
(* The file store: the files of the working directory, a map from file     *)
(* name to content.  The path of a file is the directory followed by the   *)
(* name, so the empty name is the path of the directory itself.            *)
(***************************************************************************)

\* std::fs::read_to_string(format!("{}{}", directory, file_loc))
read_to_string(fs, file_loc) ==
    LET file == get(fs, file_loc)
    IN  IF file_loc # <<>> /\ file.some THEN Ok(file.val) ELSE Err("io")

\* The outcomes of the file operations of post_file: whether create_dir_all,
\* File::create and write_all succeed, and how many bytes a failed write_all
\* leaves in the file.
AllOk == [create_dir_all |-> TRUE, create |-> TRUE, write_all |-> TRUE, written |-> 0]
FileIO(len) ==
    {AllOk,
     [create_dir_all |-> FALSE, create |-> TRUE, write_all |-> TRUE, written |-> 0],
     [create_dir_all |-> TRUE, create |-> FALSE, write_all |-> TRUE, written |-> 0]}
        \cup {[create_dir_all |-> TRUE, create |-> TRUE, write_all |-> FALSE,
               written |-> w] : w \in 0..len}

\* What a handler leaves behind: its result (meaningless after a panic), the
\* file store, and the panic that ended it ("none": it returned).
Returned(result, fs) == [result |-> result, fs |-> fs, panic |-> "none"]
Panicked(msg, fs) == [result |-> Err("panic"), fs |-> fs, panic |-> msg]

(***************************************************************************)
(* The route handlers.                                                     *)
(***************************************************************************)

\* HttpResponse::get_file
get_file(request, fs) ==
    LET file_loc == last(split(request.target, "/"))
    IN  IF ~file_loc.some
        THEN Err("BadRequest")
        ELSE LET file == read_to_string(fs, file_loc.val)
             IN  IF ~file.ok
                 THEN Err("NotFound")
                 ELSE Ok(new("Ok", Some(s_OK),
                             Some({<<s_ContentType, s_octetstream>>,
                                   <<s_ContentLength, to_string(Len(file.val))>>}),
                             Some(file.val)))

\* HttpResponse::post_file
post_file(request, fs, io) ==
    LET file_name == last(split(request.target, "/"))
    IN  IF ~file_name.some
        THEN Returned(Err("BadRequest"), fs)
        ELSE IF ~io.create_dir_all
        THEN Panicked("could not create directory", fs)
        ELSE IF ~io.create \/ file_name.val = <<>>
        THEN Returned(Err("InternalServerError"), fs)
        ELSE IF ~request.body.some
        THEN Panicked("called Option::unwrap() on a None value",
                      insert(fs, file_name.val, <<>>))
        ELSE IF ~io.write_all
        THEN Panicked("couldnt write body to file",
                      insert(fs, file_name.val,
                             SubSeq(request.body.val, 1, io.written)))
        ELSE Returned(Ok(new("Created", Some(s_Created), None, None)),
                      insert(fs, file_name.val, request.body.val))

\* Mutant of echo: the body is all that follows "/echo/", not the final segment.
echo_strip_prefix(request) ==
    LET res_body == SubSeq(request.target, Len(p_echo) + 1, Len(request.target))
    IN  Ok(new("Ok", Some(s_OK),
               Some({<<s_ContentType, s_textplain>>,
                     <<s_ContentLength, to_string(Len(res_body))>>}),
               Some(res_body)))

\* HttpResponse::echo
echo(request) ==
    LET res_body == last(split(request.target, "/"))
    IN  IF ~res_body.some
        THEN Err("panic")
        ELSE Ok(new("Ok", Some(s_OK),
                    Some({<<s_ContentType, s_textplain>>,
                          <<s_ContentLength, to_string(Len(res_body.val))>>}),
                    Some(res_body.val)))

\* HttpResponse::user_agent
user_agent(request) ==
    IF ~request.headers.some
    THEN Err("BadRequest")
    ELSE LET agent_header == get(request.headers.val, s_UserAgent)
         IN  IF ~agent_header.some
             THEN Err("BadRequest")
             ELSE Ok(new("Ok", Some(s_OK),
                         Some({<<s_ContentType, s_textplain>>,
                               <<s_ContentLength, to_string(Len(agent_header.val))>>}),
                         Some(agent_header.val)))

(***************************************************************************)
(* The dispatcher of main.rs.                                              *)
(***************************************************************************)

\* The error arm of handle_files: the response of an error kind.
error_response(err) ==
    CASE err = "BadRequest" -> bad_request(None, None)
      [] err = "InternalServerError" -> internal_server_error
      [] err = "NotFound" -> not_found

\* The method match of handle_files: the handler that answers.
files_handler(method) ==
    CASE method = "Get" -> "get_file"
      [] method = "Post" -> "post_file"
      [] OTHER -> "not_found"

\* handle_files
handle_files(request, fs, io) ==
    LET h == files_handler(request.method)
        out == CASE h = "get_file" -> Returned(get_file(request, fs), fs)
                 [] h = "post_file" -> post_file(request, fs, io)
                 [] OTHER -> Returned(Ok(not_found), fs)
    IN  IF out.panic # "none"
        THEN out
        ELSE Returned(Ok(IF out.result.ok
                         THEN out.result.val
                         ELSE error_response(out.result.err)),
                      out.fs)

\* Mutant of route: the prefixes are matched without their final '/'.
route_loose_prefix(target) ==
    IF target = t_root THEN "ok"
    ELSE IF target = t_useragent THEN "user_agent"
    ELSE IF starts_with(target, SubSeq(p_echo, 1, Len(p_echo) - 1)) THEN "echo"
    ELSE IF starts_with(target, SubSeq(p_files, 1, Len(p_files) - 1)) THEN "handle_files"
    ELSE "not_found"

\* The target match of handle_connection: the arm that answers.
route(target) ==
    IF target = t_root THEN "ok"
    ELSE IF target = t_useragent THEN "user_agent"
    ELSE IF starts_with(target, p_echo) THEN "echo"
    ELSE IF starts_with(target, p_files) THEN "handle_files"
    ELSE "not_found"

\* The handler a parsed request reaches: the arm, and within handle_files the
\* method's handler.
handler_of(request) ==
    LET arm == route(request.target)
    IN  IF arm = "handle_files" THEN files_handler(request.method) ELSE arm

\* Mutant of respond: the echo and user-agent arms answer GET only.
respond_get_only(parsed, fs, io) ==
    IF ~parsed.ok
    THEN Returned(Ok(bad_request(None, None)), fs)
    ELSE LET req == parsed.val
             arm == route(req.target)
         IN  CASE arm = "ok" -> Returned(Ok(ok(None, None)), fs)
               [] arm \in {"user_agent", "echo"} /\ req.method # "Get" ->
                    Returned(Ok(not_found), fs)
               [] arm = "user_agent" /\ req.method = "Get" ->
                    LET res == user_agent(req)
                    IN  Returned(Ok(IF res.ok THEN res.val
                                    ELSE bad_request(None, None)), fs)
               [] arm = "echo" /\ req.method = "Get" ->
                    Returned(Ok(echo(req).val), fs)
               [] arm = "handle_files" -> handle_files(req, fs, io)
               [] OTHER -> Returned(Ok(not_found), fs)

\* The `let response = match request { ... }` of handle_connection.
respond(parsed, fs, io) ==
    IF ~parsed.ok
    THEN Returned(Ok(bad_request(None, None)), fs)
    ELSE LET req == parsed.val
             arm == route(req.target)
         IN  CASE arm = "ok" -> Returned(Ok(ok(None, None)), fs)
               [] arm = "user_agent" ->
                    LET res == user_agent(req)
                    IN  Returned(Ok(IF res.ok THEN res.val
                                    ELSE bad_request(None, None)), fs)
               [] arm = "echo" ->
                    LET res == echo(req)
                    IN  IF ~res.ok /\ res.err = "panic"
                        THEN Panicked("could not get last element of /echo/ endpoint", fs)
                        ELSE Returned(Ok(IF res.ok THEN res.val
                                         ELSE bad_request(None, None)), fs)
               [] arm = "handle_files" -> handle_files(req, fs, io)
               [] OTHER -> Returned(Ok(not_found), fs)

(***************************************************************************)
(* What clients send.  A request is the line sequence BufReader::lines     *)
(* yields: a request line, then at most MaxLines further lines.            *)
(***************************************************************************)

\* A verb HttpMethod::from does not know, and a version HttpVersion::from
\* does not know.
s_BREW == <<"B", "R", "E", "W">>
s_HTTP3 == <<"H", "T", "T", "P", "/", "3">>

MethodTokens == {s_GET, s_POST}

n_f == <<"f">>

TargetTokens ==
    {t_root,
     t_useragent,
     p_echo \o <<"a">>,
     p_echo \o <<"a", "/", "b">>,
     p_echo,
     <<"/", "e", "c", "h", "o">>,
     p_files \o n_f,
     p_files \o <<"d", "/">> \o n_f,
     p_files,
     <<"/", "f", "i", "l", "e", "s">>,
     <<"/", "u", "n", "k", "n", "o", "w", "n", "/", "p", "a", "t", "h">>,
     <<"/", "?", "q", "=", "1">>}

\* Request lines of exactly three tokens.
ThreeTokenLines ==
    {m \o s_sp \o tg \o s_sp \o s_HTTP11 : m \in MethodTokens, tg \in TargetTokens}
        \cup {m \o s_sp \o tg \o s_sp \o s_HTTP11 :
                  m \in {s_PUT, s_BREW},
                  tg \in {t_root, t_useragent, p_echo \o <<"a">>, p_files \o n_f}}
        \cup {s_GET \o s_sp \o t_root \o s_sp \o v : v \in {s_HTTP10, s_HTTP20, s_HTTP3}}
        \cup {s_sp \o s_sp}

\* Request lines of another number of tokens: none, one, two, four.
OtherLines ==
    {<<>>,
     s_GET,
     s_GET \o s_sp \o t_root,
     s_GET \o s_sp \o s_sp \o t_root \o s_sp \o s_HTTP11,
     s_GET \o s_sp \o t_root \o s_sp \o s_HTTP11 \o s_sp}

\* The lines after the request line: the empty line, two User-Agent headers
\* (the second with ": " in its value), and a header of another name.
l_ua1 == s_UserAgent \o s_colonsp \o <<"x">>
l_ua2 == s_UserAgent \o s_colonsp \o <<"y", ":", " ", "z">>
l_lower == <<"u", "s", "e", "r", "-", "a", "g", "e", "n", "t">> \o s_colonsp \o <<"x">>
LineTokens == {<<>>, l_ua1, l_ua2, l_lower}

Seqs(S, n) == UNION {[1..k -> S] : k \in 0..n}

\* Every line sequence a client may send, the empty one included.
Inputs ==
    {<<>>} \cup {<<rl>> \o rest : rl \in ThreeTokenLines \cup OtherLines,
                                  rest \in Seqs(LineTokens, MaxLines)}

\* Lines joined by line feeds.
RECURSIVE join(_)
join(lines) ==
    IF lines = <<>> THEN <<>>
    ELSE IF Len(lines) = 1 THEN lines[1]
    ELSE lines[1] \o <<"\n">> \o join(Tail(lines))

\* The body a client sent: what follows the first empty line, None when no
\* empty line ends the header block.
raw_body(data) ==
    LET empties == {i \in 2..Len(data) : data[i] = <<>>}
    IN  IF empties = {}
        THEN None
        ELSE LET e == CHOOSE i \in empties : \A j \in empties : i <= j
             IN  Some(join(SubSeq(data, e + 1, Len(data))))

(***************************************************************************)
(* The state.                                                              *)
(***************************************************************************)
VARIABLES
    pc,           \* where main is: "accept", "read", "parse", "dispatch",
                  \* "write", "done" (inside handle_connection), "panicked"
    raw_request,  \* the lines read from the connection
    request,      \* Option of the Result of HttpRequest::try_from
    response,     \* Option of the HttpResponse to write
    stream,       \* what has been written to the connection
    fs,           \* the files of the working directory
    panic,        \* the panic that ended the process, "none" while it runs
    handler,      \* history: the handler that answered this connection
    posted,       \* history: per file name whose last POST carried a body
                  \* and was answered 201, whether the file then held
                  \* exactly that body
    unanswered,   \* history: the number of streams incoming() has yielded
                  \* whose response is not written yet
    writers,      \* history: per file name, the request.body of the last POST
                  \* answered 201
    replaced,     \* history: Option of what the file held when the POST of
                  \* the connection in hand, answered 201, created it anew
    code,         \* the u16 last converted
    variant,      \* Option of the StatusCode that was cast to code
    decoded       \* StatusCode::from_u16(code)

conn == <<raw_request, request, response, stream, handler>>
store == <<fs, posted>>
order == <<unanswered, writers, replaced>>
status == <<code, variant, decoded>>
vars == <<pc, raw_request, request, response, stream, fs, panic, handler, posted,
          unanswered, writers, replaced, code, variant, decoded>>

Init ==
    /\ pc = "accept"
    /\ raw_request = <<>>
    /\ request = None
    /\ response = None
    /\ stream = <<>>
    /\ fs = {}
    /\ panic = "none"
    /\ handler = "none"
    /\ posted = {}
    /\ unanswered = 0
    /\ writers = {}
    /\ replaced = None
    /\ code = 0
    /\ variant = None
    /\ decoded = from_u16(0)

(***************************************************************************)
(* main and handle_connection, one action per step.                        *)
(***************************************************************************)

\* A variant of at_incoming in which main asks for the next stream while the
\* response of the connection in hand is still to be written.
at_incoming_before_write(p) == p \in {"accept", "write"}

\* main is at listener.incoming(): the loop body is one synchronous call of
\* handle_connection, so main is back at incoming() only after it returned.
at_incoming(p) == p = "accept"

\* main: listener.incoming() yields a stream and handle_connection is called.
\* (An Err of incoming() is printed and changes nothing.)
Accept ==
    /\ at_incoming(pc)
    /\ pc' = "read"
    /\ unanswered' = unanswered + 1
    /\ UNCHANGED <<conn, store, panic, writers, replaced, status>>

\* handle_connection: buf_reader.lines() collected up to the end of the stream.
ReadLines ==
    /\ pc = "read"
    /\ \E data \in Inputs : raw_request' = data
    /\ pc' = "parse"
    /\ UNCHANGED <<request, response, stream, handler, store, panic, order, status>>

\* handle_connection: result.unwrap() on a line the transport failed to read.
\* The panic unwinds main: the process and its values are gone.
ReadPanic ==
    /\ pc = "read"
    /\ pc' = "panicked"
    /\ panic' = "lines"
    /\ UNCHANGED <<conn, store, order, status>>

\* The history of a POST answered 201: a request with no body leaves no
\* record, one with a body records whether the file holds that body.
record_post(history, file_name, sent, stored) ==
    IF sent.some
    THEN insert(history, file_name, stored = sent.val)
    ELSE {p \in history : p[1] # file_name}

\* handle_connection: HttpRequest::try_from(raw_request)
Parse ==
    /\ pc = "parse"
    /\ request' = Some(try_from(raw_request))
    /\ pc' = "dispatch"
    /\ UNCHANGED <<raw_request, response, stream, handler, store, panic, order, status>>

\* The file operation outcomes a request can meet: only post_file has any.
io_outcomes(parsed) ==
    IF parsed.ok /\ handler_of(parsed.val) = "post_file" /\ parsed.val.body.some
    THEN FileIO(Len(parsed.val.body.val))
    ELSE {AllOk}

\* handle_connection: the match on the request, with the handler it calls.
Dispatch ==
    /\ pc = "dispatch"
    /\ \E io \in io_outcomes(request.val) :
         LET out == respond(request.val, fs, io)
             h == IF request.val.ok THEN handler_of(request.val.val) ELSE "bad_request"
         IN  /\ handler' = h
             /\ fs' = out.fs
             /\ panic' = out.panic
             /\ IF out.panic # "none"
                THEN /\ pc' = "panicked"
                     /\ raw_request' = <<>>
                     /\ request' = None
                     /\ response' = None
                     /\ posted' = posted
                     /\ writers' = writers
                     /\ replaced' = None
                ELSE /\ pc' = "write"
                     /\ raw_request' = raw_request
                     /\ request' = request
                     /\ response' = Some(out.result.val)
                     /\ posted' =
                          IF h = "post_file" /\ out.result.val.status_code = "Created"
                          THEN LET file_name == last(split(request.val.val.target, "/")).val
                               IN  record_post(posted, file_name, raw_body(raw_request),
                                               get(out.fs, file_name).val)
                          ELSE posted
                     /\ writers' =
                          IF h = "post_file" /\ out.result.val.status_code = "Created"
                          THEN insert(writers,
                                      last(split(request.val.val.target, "/")).val,
                                      request.val.val.body.val)
                          ELSE writers
                     /\ replaced' =
                          IF h = "post_file" /\ out.result.val.status_code = "Created"
                          THEN get(fs, last(split(request.val.val.target, "/")).val)
                          ELSE None
    /\ UNCHANGED <<stream, unanswered, status>>

\* handle_connection: stream.write_all(&response.as_bytes())
WriteAll ==
    /\ pc = "write"
    /\ \E bytes \in as_bytes(response.val) : stream' = Append(stream, bytes)
    /\ pc' = "done"
    /\ unanswered' = unanswered - 1
    /\ UNCHANGED <<raw_request, request, response, handler, store, panic, writers,
                   replaced, status>>

\* handle_connection: .unwrap() on a write the transport failed.
WritePanic ==
    /\ pc = "write"
    /\ pc' = "panicked"
    /\ panic' = "write_all"
    /\ raw_request' = <<>>
    /\ request' = None
    /\ response' = None
    /\ replaced' = None
    /\ UNCHANGED <<stream, handler, store, unanswered, writers, status>>

\* handle_connection returns: the stream is dropped, main loops.
Return ==
    /\ pc = "done"
    /\ pc' = "accept"
    /\ raw_request' = <<>>
    /\ request' = None
    /\ response' = None
    /\ stream' = <<>>
    /\ handler' = "none"
    /\ replaced' = None
    /\ UNCHANGED <<store, panic, unanswered, writers, status>>

Next ==
    \/ Accept
    \/ ReadLines
    \/ ReadPanic
    \/ Parse
    \/ Dispatch
    \/ WriteAll
    \/ WritePanic
    \/ Return

Spec == Init /\ [][Next]_vars

(***************************************************************************)
(* The StatusCode conversions, applied to every u16 up to MaxCode and to   *)
(* every variant.                                                          *)
(***************************************************************************)

\* StatusCode::from_u16(c)
FromU16 ==
    \E c \in 0..MaxCode :
        /\ code' = c
        /\ variant' = None
        /\ decoded' = from_u16(c)
        /\ UNCHANGED <<pc, conn, store, panic, order>>

\* StatusCode::from_u16(v as u16)
CastThenFromU16 ==
    \E v \in StatusCode :
        /\ code' = as_u16(v)
        /\ variant' = Some(v)
        /\ decoded' = from_u16(as_u16(v))
        /\ UNCHANGED <<pc, conn, store, panic, order>>

NextStatus == FromU16 \/ CastThenFromU16

SpecStatus == Init /\ [][NextStatus]_vars

(***************************************************************************)
(* The vocabulary of the claims, stated without the code's operators.      *)
(***************************************************************************)

\* The response has been chosen (and, at "done", written).
Responding == pc \in {"write", "done"}

\* The request of a connection whose parse succeeded.
Parsed == request.some /\ request.val.ok
Req == request.val.val

HasPrefix(s, p) == Len(s) >= Len(p) /\ \A i \in 1..Len(p) : s[i] = p[i]

\* What follows the last '/' of s (all of s when it has none).
FinalSegment(s) ==
    LET slashes == {i \in 1..Len(s) : s[i] = "/"}
        k == IF slashes = {} THEN 0 ELSE CHOOSE i \in slashes : \A j \in slashes : j <= i
    IN  [i \in 1..(Len(s) - k) |-> s[k + i]]

Spaces(line) == {i \in 1..Len(line) : line[i] = " "}

\* The text between the first and the second space of a line with two spaces.
SecondToken(line) ==
    LET a == CHOOSE i \in Spaces(line) : \A j \in Spaces(line) : i <= j
        b == CHOOSE i \in Spaces(line) : \A j \in Spaces(line) : j <= i
    IN  [i \in 1..(b - a - 1) |-> line[a + i]]

FirstToken(line) ==
    LET a == CHOOSE i \in Spaces(line) : \A j \in Spaces(line) : i <= j
    IN  [i \in 1..(a - 1) |-> line[i]]

ThirdToken(line) ==
    LET b == CHOOSE i \in Spaces(line) : \A j \in Spaces(line) : j <= i
    IN  [i \in 1..(Len(line) - b) |-> line[b + i]]

\* The index of the first empty line after the request line, 0 when none.
FirstEmpty(data) ==
    LET empties == {i \in 2..Len(data) : data[i] = <<>>}
    IN  IF empties = {} THEN 0 ELSE CHOOSE i \in empties : \A j \in empties : i <= j

\* The indices of the header block: after the request line, before the first
\* empty line.
HeaderBlock(data) ==
    IF FirstEmpty(data) = 0 THEN 2..Len(data) ELSE 2..(FirstEmpty(data) - 1)

NoHeadersNoBody(r) == ~r.headers.some /\ ~r.body.some

Is(r, status_code, reason) ==
    /\ r.version = "Http11"
    /\ r.status_code = status_code
    /\ r.reason = Some(reason)

\* A 200 response carrying `body` with the given Content-Type.
Carries(r, content_type, body) ==
    /\ Is(r, "Ok", s_OK)
    /\ r.headers = Some({<<s_ContentType, content_type>>,
                         <<s_ContentLength, to_string(Len(body))>>})
    /\ r.body = Some(body)

w_400 == <<"H", "T", "T", "P", "/", "1", ".", "1", " ", "4", "0", "0", " ", "B", "a", "d", " ", "R", "e", "q", "u", "e", "s", "t", "\r", "\n", "\r", "\n">>

(***************************************************************************)
(* C1: every connection whose lines were read gets exactly one response,   *)
(* written after parsing and dispatch, with status 200, 201, 400, 404 or   *)
(* 500; no parser or handler failure ends the task with nothing written.   *)
(* (A panic of the transport's read or write is not a handler failure.)    *)
(***************************************************************************)
C1_OneResponseWhateverFails ==
    /\ pc \in {"read", "parse", "dispatch", "write"} => stream = <<>>
    /\ pc = "done" =>
          /\ Len(stream) = 1
          /\ response.val.status_code \in
                 {"Ok", "Created", "BadRequest", "NotFound", "InternalServerError"}
    /\ (pc = "panicked" /\ panic \notin {"lines", "write_all"}) => Len(stream) = 1

\* The handler the route table of C2 names for a target and a method.
C2_Expected(target, method) ==
    IF target = t_root THEN "ok"
    ELSE IF target = t_useragent THEN "user_agent"
    ELSE IF HasPrefix(target, p_echo) THEN "echo"
    ELSE IF HasPrefix(target, p_files)
    THEN (IF method = "Get" THEN "get_file"
          ELSE IF method = "Post" THEN "post_file" ELSE "not_found")
    ELSE "not_found"

(***************************************************************************)
(* C2: a parsed request is dispatched by its target alone: "/" gets 200 OK *)
(* with no headers and no body, "/user-agent" the user-agent handler, a    *)
(* target starting with "/echo/" the echo handler, one starting with       *)
(* "/files/" the file-get handler for GET, the file-post handler for POST  *)
(* and 404 for any other method; every other target gets 404 Not Found     *)
(* with no headers and no body.                                            *)
(***************************************************************************)
C2_DispatchByTarget ==
    (Responding /\ Parsed) =>
        LET h == C2_Expected(Req.target, Req.method)
            r == response.val
        IN  /\ handler = h
            /\ h = "ok" => Is(r, "Ok", s_OK) /\ NoHeadersNoBody(r)
            /\ h = "not_found" => Is(r, "NotFound", s_NotFound) /\ NoHeadersNoBody(r)
            /\ h = "echo" =>
                  r.status_code = "Ok" /\ <<s_ContentType, s_textplain>> \in r.headers.val
            /\ h = "user_agent" =>
                  \/ r.status_code = "Ok" /\ <<s_ContentType, s_textplain>> \in r.headers.val
                  \/ r.status_code = "BadRequest"
            /\ h = "get_file" =>
                  \/ r.status_code = "Ok" /\ <<s_ContentType, s_octetstream>> \in r.headers.val
                  \/ r.status_code = "NotFound"
            /\ h = "post_file" => r.status_code \in {"Created", "InternalServerError"}

\* C2's case: a PUT to /files/f reached handle_files and was answered 404.
C2_Witness ==
    /\ pc = "done"
    /\ Parsed
    /\ Req.target = p_files \o n_f
    /\ Req.method = "Put"
    /\ response.val.status_code = "NotFound"

\* The (method, target) combinations of the route table C3 reads.
C3_InRouteTable(method, target) ==
    \/ target = t_root
    \/ target = t_useragent /\ method = "Get"
    \/ HasPrefix(target, p_echo) /\ method = "Get"
    \/ HasPrefix(target, p_files) /\ method \in {"Get", "Post"}

C4_GetReturnsPostedBody ==
    Responding =>
        LET r == response.val
        IN  /\ (/\ handler = "post_file"
                /\ raw_body(raw_request).some
                /\ r.status_code # "InternalServerError") =>
                   Is(r, "Created", s_Created) /\ NoHeadersNoBody(r)
            /\ (/\ handler = "get_file"
                /\ get(posted, FinalSegment(Req.target)).some) =>
                   /\ get(posted, FinalSegment(Req.target)).val
                   /\ Carries(r, s_octetstream, get(fs, FinalSegment(Req.target)).val)

(***************************************************************************)
(* C5: parsing fails, with BadRequest, exactly when no line was read or    *)
(* the first line does not split on single spaces into three tokens, and   *)
(* the connection is then answered "HTTP/1.1 400 Bad Request" with no      *)
(* headers and no body; otherwise it succeeds whatever the method and      *)
(* version tokens are (unknown ones give NotImp and Unknown) and the       *)
(* target is the second token verbatim.                                    *)
(***************************************************************************)
C5_BadRequestIffNotThreeTokens ==
    request.some =>
        LET bad == raw_request = <<>> \/ Cardinality(Spaces(raw_request[1])) # 2
        IN  /\ ~request.val.ok <=> bad
            /\ bad => request.val = Err("BadRequest")
            /\ (bad /\ Responding) =>
                   Is(response.val, "BadRequest", s_BadRequest)
                       /\ NoHeadersNoBody(response.val)
            /\ (bad /\ pc = "done") => stream = <<w_400>>
            /\ ~bad =>
                   /\ Req.target = SecondToken(raw_request[1])
                   /\ FirstToken(raw_request[1]) \notin
                          {s_GET, s_POST, s_PUT, s_PATCH, s_DELETE, s_CONNECT,
                           s_HEAD, s_OPTIONS, s_TRACE} => Req.method = "NotImp"
                   /\ ThirdToken(raw_request[1]) \notin {s_HTTP10, s_HTTP11, s_HTTP20}
                          => Req.version = "Unknown"

\* C5's case: a request line of two tokens was answered 400.
C5_Witness ==
    /\ pc = "done"
    /\ raw_request # <<>>
    /\ raw_request[1] = s_GET \o s_sp \o t_root
    /\ stream = <<w_400>>

(***************************************************************************)
(* C6: a POST to /files/<name> whose request carries no body (the lines    *)
(* end with the header block or with the empty line that ends it) is       *)
(* answered 400.  (A POST the file store refused, answered 500, is left    *)
(* aside.)                                                                 *)
(***************************************************************************)
C6_PostWithoutBodyIs400 ==
    (/\ Responding
     /\ handler = "post_file"
     /\ FirstEmpty(raw_request) \in {0, Len(raw_request)}
     /\ response.val.status_code # "InternalServerError") =>
        response.val.status_code = "BadRequest"

(***************************************************************************)
(* C7: a request to /user-agent is answered 200 OK with Content-Type       *)
(* text/plain, body v and Content-Length the length of v exactly when a    *)
(* line of the header block is "User-Agent: v" (exact name, split at the   *)
(* first ": ", the last such line wins); otherwise it is answered 400 Bad  *)
(* Request with no headers and no body.                                    *)
(***************************************************************************)
C7_UserAgentEchoed ==
    (Responding /\ Parsed /\ Req.target = t_useragent) =>
        LET name == s_UserAgent \o s_colonsp
            lines == {i \in HeaderBlock(raw_request) : HasPrefix(raw_request[i], name)}
            r == response.val
        IN  IF lines = {}
            THEN Is(r, "BadRequest", s_BadRequest) /\ NoHeadersNoBody(r)
            ELSE LET i == CHOOSE k \in lines : \A j \in lines : j <= k
                     v == [k \in 1..(Len(raw_request[i]) - Len(name)) |->
                              raw_request[i][Len(name) + k]]
                 IN  Carries(r, s_textplain, v)

\* C7's case: two User-Agent lines, and the value of the second was sent back.
C7_Witness ==
    /\ pc = "done"
    /\ Parsed
    /\ Req.target = t_useragent
    /\ Len(raw_request) = 3
    /\ raw_request[2] = l_ua2
    /\ raw_request[3] = l_ua1
    /\ response.val.body = Some(<<"x">>)

(***************************************************************************)
(* C8: a target starting with "/echo/" is answered 200 OK with             *)
(* Content-Type text/plain, the final '/'-delimited segment of the target  *)
(* as body and its length as Content-Length.                               *)
(***************************************************************************)
C8_EchoFinalSegment ==
    (Responding /\ Parsed /\ HasPrefix(Req.target, p_echo)) =>
        Carries(response.val, s_textplain, FinalSegment(Req.target))

\* C8's case: "/echo/a/b" was answered with body "b".
C8_Witness ==
    /\ pc = "done"
    /\ Parsed
    /\ Req.target = p_echo \o <<"a", "/", "b">>
    /\ response.val.body = Some(<<"b">>)
    /\ <<s_ContentLength, <<"1">>>> \in response.val.headers.val

(***************************************************************************)
(* C9: a parsed request has a body only when the final line is not empty   *)
(* and comes after the first empty line; when the input is the request     *)
(* line alone, ends with a header line or ends with the empty line, the    *)
(* body is absent.                                                         *)
(***************************************************************************)
C9_BodyOnlyAfterHeaderBlock ==
    Parsed =>
        (Req.body.some <=>
            /\ raw_request[Len(raw_request)] # <<>>
            /\ FirstEmpty(raw_request) # 0
            /\ FirstEmpty(raw_request) < Len(raw_request))

(***************************************************************************)
(* C10: from_u16 undoes the cast to u16 on each of the five status codes,  *)
(* and gives None for every other number.                                  *)
(***************************************************************************)
C10_FromU16InvertsCast ==
    /\ variant.some => decoded = Some(variant.val)
    /\ code \notin {200, 201, 400, 404, 500} => decoded = None

(***************************************************************************)
(* C11: main handles the connections one at a time in the order it         *)
(* accepted them. While a connection is read, parsed, dispatched or        *)
(* answered it is the only accepted connection whose response is not       *)
(* written, and main takes the next one only with nothing left of the      *)
(* last; so no two POSTs run their create and write steps together, and    *)
(* once a POST to /files/<name> is answered 201, whatever earlier POST     *)
(* wrote that file, the file holds exactly the request body of this later  *)
(* POST and keeps it until the next POST to that name.                     *)
(***************************************************************************)
C11_OneConnectionAtATime ==
    /\ unanswered \in {0, 1}
    /\ pc \in {"read", "parse", "dispatch", "write"} => unanswered = 1
    /\ pc \in {"accept", "done"} => unanswered = 0
    /\ pc \in {"accept", "read"} => stream = <<>> /\ ~request.some /\ ~response.some
    /\ (Responding /\ handler = "post_file" /\ response.val.status_code = "Created") =>
           get(writers, FinalSegment(Req.target)) = Some(Req.body.val)
    /\ pc # "panicked" =>
           \A w \in writers : get(fs, w[1]) = Some(w[2])

\* C11's case: a POST to /files/f answered 201 found the file an earlier
\* connection's POST had written with another body; its response is written,
\* no connection is left unanswered, and the file holds its request body.
C11_Witness ==
    /\ pc = "done"
    /\ unanswered = 0
    /\ handler = "post_file"
    /\ response.val.status_code = "Created"
    /\ Req.target = p_files \o n_f
    /\ replaced.some
    /\ replaced.val # <<>>
    /\ replaced.val # Req.body.val
    /\ Req.body.val # <<>>
    /\ get(fs, n_f) = Some(Req.body.val)

====
